---- MODULE Spec2Model ----
(***************************************************************************)
(* A model of github.com/wabarc/logger (logger.go): a process-wide leveled *)
(* logger.  Two package variables (logLevel, showTime) configure it; five  *)
(* level functions gate on logLevel and call logging(), which renders one  *)
(* line and writes it to os.Stderr with a single fmt.Fprintf; Fatal then   *)
(* calls os.Exit(1).                                                       *)
(*                                                                         *)
(* Spec     : one goroutine calls the package; every call runs to its end  *)
(*            before the next starts (one action per exported function).   *)
(* SpecConc : several goroutines call the package; a call is split at its  *)
(*            accesses to the unsynchronised package variables and at the  *)
(*            write to os.Stderr.                                          *)
(***************************************************************************)
EXTENDS Integers, Sequences, FiniteSets, TLC

VARIABLES
    logLevel,    \* var logLevel (package variable, LogLevel = uint32)
    showTime,    \* var showTime (package variable, bool)
    stderr,      \* what has been written to os.Stderr: one entry per Fprintf
    exitStatus,  \* {} while the process runs, else {its exit status}
    pc,          \* per goroutine: where it is in the call it is executing
    call,        \* per goroutine: arguments and locals of its current/last call
    stores,      \* per goroutine: the values it has stored to each variable
    trace,       \* history: the names of the calls made, in order
    wlog         \* history: for each entry of stderr, who wrote it and when

vars == <<logLevel, showTime, stderr, exitStatus, pc, call, stores, trace, wlog>>

----------------------------------------------------------------------------
(* Bounds of the model *)

\* number of calls made to the package in one run
MaxCalls == 3
\* SetLogLevel is called with every LogLevel in 0..MaxLevelArg; the values
\* above LevelDebug stand for the part of uint32 that names no level
MaxLevelArg == 5
\* number of calls made by the goroutines of SpecConc in one run
MaxConcCalls == 2

(* Program constants: const ( LevelFatal LogLevel = iota ... ) *)
LevelFatal == 0
LevelError == 1
LevelWarn  == 2
LevelInfo  == 3
LevelDebug == 4

\* LogLevel is uint32: it has no negative value.  No arithmetic is done on a
\* LogLevel, so only the order of the values matters.
LogLevels == 0..MaxLevelArg

Severities == {LevelFatal, LevelError, LevelWarn, LevelInfo, LevelDebug}

Main   == "main"
Procs  == {"main", "worker"}
\* time.Now().Format("2006-01-02T15:04:05")
Times  == {"2021-03-04T05:06:07"}

LevelOps == {"Debug", "Info", "Warn", "Error", "Fatal"}

----------------------------------------------------------------------------
(* Strings are sequences of characters, so that strings.Split is computed. *)

Last(q) == q[Len(q)]

\* strings.Split(s, sep) for a one-character sep: the pieces between the
\* separators; a string without sep (the empty one too) gives one piece.
RECURSIVE Split(_, _)
Split(s, sep) ==
    IF \A i \in 1..Len(s) : s[i] # sep
    THEN <<s>>
    ELSE LET i == CHOOSE k \in 1..Len(s) :
                      s[k] = sep /\ \A j \in 1..(k - 1) : s[j] # sep
         IN  <<SubSeq(s, 1, i - 1)>> \o Split(SubSeq(s, i + 1, Len(s)), sep)

\* What runtime.Caller(2) and runtime.FuncForPC(pc).Name() report: a resolved
\* caller, a method of a nested package, and an unresolved caller (ok = false:
\* file "", line 0, pc 0; FuncForPC gives nil, whose Name() is "").
CallSites ==
    { [file |-> <<"/", "s", "/", "m">>, line |-> 7, name |-> <<"p", ".", "f">>],
      [file |-> <<>>, line |-> 0, name |-> <<>>] }

\* format strings are sequences of literal pieces and verbs
Lit(s)  == [grp |-> "text", s |-> s]
Verb(s) == [grp |-> "verb", s |-> s]
NL      == [grp |-> "nl"]

\* the (format, v...) pairs the callers pass: matching, and with one
\* argument more than the format has verbs
Messages ==
    { [format |-> <<Lit("x="), Verb("%d")>>, v |-> <<"5">>],
      [format |-> <<Lit("boom")>>,           v |-> <<"5">>] }

----------------------------------------------------------------------------
(* func (l LogLevel) String() string *)
String(l) ==
    CASE l = LevelDebug -> "DEBUG"
      [] l = LevelInfo  -> "INFO"
      [] l = LevelWarn  -> "WARN"
      [] l = LevelError -> "ERROR"
      [] l = LevelFatal -> "FATAL"
      [] OTHER          -> "UNKNOWN"

Color(c, s) == [color |-> c, s |-> s]

\* var colorable = map[LogLevel]string{...}
colorable ==
    [l \in Severities |->
        CASE l = LevelFatal -> Color("red", String(LevelFatal))
          [] l = LevelError -> Color("hired", String(LevelError))
          [] l = LevelWarn  -> Color("yellow", String(LevelWarn))
          [] l = LevelInfo  -> Color("blue", String(LevelInfo))
          [] l = LevelDebug -> Color("white", String(LevelDebug))]

\* colorable[l]: a key the map does not hold gives the zero value ""
Colorable(l) == IF l \in DOMAIN colorable THEN colorable[l] ELSE Color("none", "")

\* "[%s] " groups
TimeGroup(now) == [grp |-> "time", color |-> "cyan", t |-> now]
LevelGroup(l)  == [grp |-> "level", color |-> Colorable(l).color, s |-> Colorable(l).s]

\* Prefix, had logging not tested showTime
PrefixAlways(l, now, st) == <<TimeGroup(now), LevelGroup(l)>>

\* logging, the if showTime {...} else {...} that sets prefix
Prefix(l, now, st) ==
    IF st THEN <<TimeGroup(now), LevelGroup(l)>>
          ELSE <<LevelGroup(l)>>

\* files[len(files)-1] panics (index out of range) on an empty slice
CallerPanics(site) ==
    \/ Split(site.file, "/") = <<>>
    \/ Split(site.name, ".") = <<>>

\* logging, from runtime.Caller(2) to caller := fmt.Sprintf("[%s:%d:%s] ", ...)
Caller(site) ==
    LET files == Split(site.file, "/")
        fns   == Split(site.name, ".")
    IN  <<[grp  |-> "site",
           file |-> Last(files),
           line |-> site.line,
           fn   |-> Last(fns)]>>

\* fmt.Fprintf(w, format, v...): every verb takes the next argument, a verb
\* with no argument left prints %!verb(MISSING), and the arguments no verb
\* took are printed after the whole format as %!(EXTRA ...).
RECURSIVE Fprintf(_, _)
Fprintf(format, v) ==
    IF format = <<>>
    THEN IF v = <<>> THEN <<>> ELSE <<[grp |-> "extra", rest |-> v]>>
    ELSE LET h == Head(format)
         IN  IF h.grp = "verb"
             THEN IF v = <<>>
                  THEN <<[grp |-> "missing", s |-> h.s]>> \o Fprintf(Tail(format), v)
                  ELSE <<Lit(Head(v))>> \o Fprintf(Tail(format), Tail(v))
             ELSE <<h>> \o Fprintf(Tail(format), v)

\* logging: the bytes of fmt.Fprintf(os.Stderr, prefix+caller+format+"\n", v...)
Render(prefix, caller, format, v) ==
    Fprintf(prefix \o caller \o format \o <<NL>>, v)

\* func logging(l LogLevel, format string, v ...interface{}), with what it
\* reads from its environment (the caller's frame, the clock, showTime)
logging(l, format, v, site, now, st) ==
    Render(Prefix(l, now, st), Caller(site), format, v)

----------------------------------------------------------------------------
(* State *)

\* the package variables and the process, before a call touches them
Was == [level |-> logLevel, time |-> showTime, err |-> stderr]

\* the frame of a call: its number and name, the severity it logs at, its
\* arguments, what it has read so far ({} = not read yet) and logging's locals
Frame(op, sev, arg, format, v) ==
    [id |-> Len(trace) + 1,
     op |-> op, sev |-> sev, arg |-> arg, format |-> format, v |-> v,
     gate |-> {}, st |-> {}, prefix |-> <<>>, caller |-> <<>>, was |-> Was]

\* var logLevel = LevelInfo; var showTime = true
Init ==
    /\ logLevel = LevelInfo
    /\ showTime = TRUE
    /\ stderr = <<>>
    /\ exitStatus = {}
    /\ pc = [p \in Procs |-> "idle"]
    /\ stores = [p \in Procs |-> [level |-> <<>>, time |-> <<>>]]
    /\ trace = <<>>
    /\ wlog = <<>>
    /\ call = [p \in Procs |-> [Frame("none", 0, {}, <<>>, <<>>) EXCEPT !.id = 0]]

\* goroutine p is between calls, in a process that has not exited
Idle(p) ==
    /\ exitStatus = {}
    /\ pc[p] = "idle"
    /\ Len(trace) < MaxCalls

\* the history entry of a write
Written(p, f) ==
    [by |-> p, id |-> f.id, op |-> f.op, gate |-> f.gate, st |-> f.st,
     level |-> logLevel', time |-> showTime']

----------------------------------------------------------------------------
(* The exported functions, each run from its first line to its return.     *)
(* A single goroutine reads the value it or the initialisation last stored.*)

\* logging(l, format, v...) called by p and run to its end, then the
\* caller's next statement: return, or os.Exit(1) when exits
Logged(p, f, site, now, exits) ==
    LET g == [f EXCEPT !.st = {showTime},
                       !.prefix = Prefix(f.sev, now, showTime),
                       !.caller = IF CallerPanics(site) THEN <<>> ELSE Caller(site)]
    IN  /\ call' = [call EXCEPT ![p] = g]
        /\ trace' = Append(trace, f.op)
        /\ IF CallerPanics(site)
           THEN /\ stderr' = stderr
                /\ wlog' = wlog
                /\ exitStatus' = {2}
                /\ pc' = [pc EXCEPT ![p] = "exited"]
           ELSE /\ stderr' = Append(stderr, logging(f.sev, f.format, f.v, site, now, showTime))
                /\ wlog' = Append(wlog, Written(p, g))
                /\ exitStatus' = IF exits THEN {1} ELSE exitStatus
                /\ pc' = [pc EXCEPT ![p] = IF exits THEN "exited" ELSE "idle"]

\* a level function whose if is false: it returns at once
Skipped(p, f) ==
    /\ call' = [call EXCEPT ![p] = f]
    /\ trace' = Append(trace, f.op)
    /\ UNCHANGED <<stderr, wlog, exitStatus, pc>>

\* func DisableTime()
DisableTime(p) ==
    /\ Idle(p)
    /\ showTime' = FALSE
    /\ stores' = [stores EXCEPT ![p].time = Append(@, FALSE)]
    /\ call' = [call EXCEPT ![p] = Frame("DisableTime", 0, {}, <<>>, <<>>)]
    /\ trace' = Append(trace, "DisableTime")
    /\ UNCHANGED <<logLevel, stderr, wlog, exitStatus, pc>>

\* SetLogLevel, had it clamped its argument to the named levels
SetLogLevelClamped(p, l) ==
    /\ Idle(p)
    /\ logLevel' = IF l > LevelDebug THEN LevelDebug ELSE l
    /\ stores' = [stores EXCEPT ![p].level = Append(@, logLevel')]
    /\ call' = [call EXCEPT ![p] = Frame("SetLogLevel", 0, {l}, <<>>, <<>>)]
    /\ trace' = Append(trace, "SetLogLevel")
    /\ UNCHANGED <<showTime, stderr, wlog, exitStatus, pc>>

\* func SetLogLevel(l LogLevel)
SetLogLevel(p, l) ==
    /\ Idle(p)
    /\ logLevel' = l
    /\ stores' = [stores EXCEPT ![p].level = Append(@, l)]
    /\ call' = [call EXCEPT ![p] = Frame("SetLogLevel", 0, {l}, <<>>, <<>>)]
    /\ trace' = Append(trace, "SetLogLevel")
    /\ UNCHANGED <<showTime, stderr, wlog, exitStatus, pc>>

DebugMode == <<Lit("Debug mode enabled")>>

\* EnableDebug, had it announced through Info() on the threshold it found
EnableDebugGated(site, now) ==
    /\ Idle(Main)
    /\ logLevel' = LevelDebug
    /\ stores' = [stores EXCEPT ![Main].level = Append(@, LevelDebug)]
    /\ UNCHANGED showTime
    /\ IF logLevel >= LevelInfo
       THEN Logged(Main, Frame("EnableDebug", LevelInfo, {}, DebugMode, <<>>), site, now, FALSE)
       ELSE Skipped(Main, Frame("EnableDebug", LevelInfo, {}, DebugMode, <<>>))

\* func EnableDebug()
EnableDebug(site, now) ==
    /\ Idle(Main)
    /\ logLevel' = LevelDebug
    /\ stores' = [stores EXCEPT ![Main].level = Append(@, LevelDebug)]
    /\ UNCHANGED showTime
    /\ Logged(Main, Frame("EnableDebug", LevelInfo, {}, DebugMode, <<>>), site, now, FALSE)

\* the body shared by the five level functions:
\*     if <pass> { logging(<sev>, format, v...) [; os.Exit(1)] }
LevelFunc(op, sev, pass, exits, format, v, site, now) ==
    /\ Idle(Main)
    /\ UNCHANGED <<logLevel, showTime, stores>>
    /\ LET f == [Frame(op, sev, {}, format, v) EXCEPT !.gate = {logLevel}]
       IN  IF pass THEN Logged(Main, f, site, now, exits)
                   ELSE Skipped(Main, f)

\* Debug, had it compared with LevelInfo
DebugAtInfo(format, v, site, now) ==
    LevelFunc("Debug", LevelDebug, logLevel >= LevelInfo, FALSE, format, v, site, now)

\* func Debug(format string, v ...interface{})
Debug(format, v, site, now) ==
    LevelFunc("Debug", LevelDebug, logLevel >= LevelDebug, FALSE, format, v, site, now)

\* func Info(format string, v ...interface{})
Info(format, v, site, now) ==
    LevelFunc("Info", LevelInfo, logLevel >= LevelInfo, FALSE, format, v, site, now)

\* Warn, had it compared with > for >=
WarnAbove(format, v, site, now) ==
    LevelFunc("Warn", LevelWarn, logLevel > LevelWarn, FALSE, format, v, site, now)

\* func Warn(format string, v ...interface{})
Warn(format, v, site, now) ==
    LevelFunc("Warn", LevelWarn, logLevel >= LevelWarn, FALSE, format, v, site, now)

\* Error, had it called os.Exit(1) as Fatal does
ErrorExits(format, v, site, now) ==
    LevelFunc("Error", LevelError, logLevel >= LevelError, TRUE, format, v, site, now)

\* func Error(format string, v ...interface{})
Error(format, v, site, now) ==
    LevelFunc("Error", LevelError, logLevel >= LevelError, FALSE, format, v, site, now)

\* Fatal, had it compared with > for >=
FatalAbove(format, v, site, now) ==
    LevelFunc("Fatal", LevelFatal, logLevel > LevelFatal, TRUE, format, v, site, now)

\* func Fatal(format string, v ...interface{})
Fatal(format, v, site, now) ==
    LevelFunc("Fatal", LevelFatal, logLevel >= LevelFatal, TRUE, format, v, site, now)

Next ==
    \/ DisableTime(Main)
    \/ \E l \in LogLevels : SetLogLevel(Main, l)
    \/ \E site \in CallSites, now \in Times : EnableDebug(site, now)
    \/ \E m \in Messages, site \in CallSites, now \in Times :
          Debug(m.format, m.v, site, now)
    \/ \E m \in Messages, site \in CallSites, now \in Times :
          Info(m.format, m.v, site, now)
    \/ \E m \in Messages, site \in CallSites, now \in Times :
          Warn(m.format, m.v, site, now)
    \/ \E m \in Messages, site \in CallSites, now \in Times :
          Error(m.format, m.v, site, now)
    \/ \E m \in Messages, site \in CallSites, now \in Times :
          Fatal(m.format, m.v, site, now)

Spec == Init /\ [][Next]_vars

----------------------------------------------------------------------------
(* Several goroutines.  logLevel and showTime are plain package variables, *)
(* read and written with no lock and no atomic: a read that races with a   *)
(* store is a data race.  Both are no larger than a machine word, so by    *)
(* the Go memory model a read observes the value of some store that does   *)
(* not happen after it and is not overwritten before it: the reader's own  *)
(* latest store (or the initial value), or any store of another goroutine. *)

Range(q) == {q[i] : i \in 1..Len(q)}

\* what p's own program order makes it see: its last store, else the initial
\* value (var logLevel = LevelInfo, var showTime = true)
OwnLevel(p) == IF stores[p].level = <<>> THEN LevelInfo ELSE Last(stores[p].level)
OwnTime(p)  == IF stores[p].time = <<>> THEN TRUE ELSE Last(stores[p].time)

\* the values a read of logLevel / showTime by p may return
ReadableLevel(p) ==
    {OwnLevel(p)} \cup UNION {Range(stores[q].level) : q \in Procs \ {p}}
ReadableTime(p) ==
    {OwnTime(p)} \cup UNION {Range(stores[q].time) : q \in Procs \ {p}}

\* the constant each level function compares logLevel with and passes to logging
OpSeverity(op) ==
    CASE op = "Debug" -> LevelDebug
      [] op = "Info"  -> LevelInfo
      [] op = "Warn"  -> LevelWarn
      [] op = "Error" -> LevelError
      [] op = "Fatal" -> LevelFatal

\* the goroutines of SpecConc make MaxConcCalls calls between them
ConcBudget == Len(trace) < MaxConcCalls

\* Passes, had the level functions not tested logLevel
PassesAll(sev, t) == TRUE

\* if logLevel >= LevelX, on the value t read from logLevel
Passes(sev, t) == t >= sev

\* Debug, Info, Warn, Error, Fatal: the call and its read of logLevel
GateRead(p, op, format, v) ==
    /\ Idle(p)
    /\ ConcBudget
    /\ \E t \in ReadableLevel(p) :
          /\ call' = [call EXCEPT ![p] =
                         [Frame(op, OpSeverity(op), {}, format, v) EXCEPT !.gate = {t}]]
          /\ pc' = [pc EXCEPT ![p] =
                       IF Passes(OpSeverity(op), t) THEN "logging" ELSE "idle"]
    /\ trace' = Append(trace, op)
    /\ UNCHANGED <<logLevel, showTime, stderr, exitStatus, stores, wlog>>

\* EnableDebug: the call and logLevel = LevelDebug; logging(LevelInfo, ...) follows
EnableDebugStore(p) ==
    /\ Idle(p)
    /\ ConcBudget
    /\ logLevel' = LevelDebug
    /\ stores' = [stores EXCEPT ![p].level = Append(@, LevelDebug)]
    /\ call' = [call EXCEPT ![p] = Frame("EnableDebug", LevelInfo, {}, DebugMode, <<>>)]
    /\ pc' = [pc EXCEPT ![p] = "logging"]
    /\ trace' = Append(trace, "EnableDebug")
    /\ UNCHANGED <<showTime, stderr, exitStatus, wlog>>

\* logging, up to the Fprintf: the read of showTime, time.Now(), runtime.Caller(2)
LoggingPrefix(p, site, now) ==
    /\ exitStatus = {}
    /\ pc[p] = "logging"
    /\ \E st \in ReadableTime(p) :
          call' = [call EXCEPT ![p].st = {st},
                               ![p].prefix = Prefix(call[p].sev, now, st),
                               ![p].caller = IF CallerPanics(site) THEN <<>> ELSE Caller(site)]
    /\ IF CallerPanics(site)
       THEN /\ exitStatus' = {2}
            /\ pc' = [pc EXCEPT ![p] = "exited"]
       ELSE /\ exitStatus' = exitStatus
            /\ pc' = [pc EXCEPT ![p] = "write"]
    /\ UNCHANGED <<logLevel, showTime, stderr, stores, trace, wlog>>

\* AfterLogging, had Fatal not called os.Exit
AfterLoggingReturn(op) == "idle"

\* the statement after the call of logging: os.Exit(1) in Fatal, else return
AfterLogging(op) == IF op = "Fatal" THEN "exit" ELSE "idle"

\* logging: fmt.Fprintf(os.Stderr, prefix+caller+format+"\n", v...), and return
LoggingWrite(p) ==
    /\ exitStatus = {}
    /\ pc[p] = "write"
    /\ UNCHANGED <<logLevel, showTime>>
    /\ stderr' = Append(stderr,
                        Render(call[p].prefix, call[p].caller, call[p].format, call[p].v))
    /\ wlog' = Append(wlog, Written(p, call[p]))
    /\ pc' = [pc EXCEPT ![p] = AfterLogging(call[p].op)]
    /\ UNCHANGED <<exitStatus, call, stores, trace>>

\* Fatal: os.Exit(1)
OsExit(p) ==
    /\ exitStatus = {}
    /\ pc[p] = "exit"
    /\ exitStatus' = {1}
    /\ pc' = [pc EXCEPT ![p] = "exited"]
    /\ UNCHANGED <<logLevel, showTime, stderr, call, stores, trace, wlog>>

NextConc ==
    \/ \E p \in Procs : ConcBudget /\ DisableTime(p)
    \/ \E p \in Procs, l \in LogLevels : ConcBudget /\ SetLogLevel(p, l)
    \/ \E p \in Procs : EnableDebugStore(p)
    \/ \E p \in Procs, op \in LevelOps, m \in Messages : GateRead(p, op, m.format, m.v)
    \/ \E p \in Procs, site \in CallSites, now \in Times : LoggingPrefix(p, site, now)
    \/ \E p \in Procs : LoggingWrite(p)
    \/ \E p \in Procs : OsExit(p)

SpecConc == Init /\ [][NextConc]_vars

----------------------------------------------------------------------------
(* What the properties speak of *)

\* the names and ordinals of the severities, as the specification lists them
Ordinal == [Fatal |-> 0, Error |-> 1, Warn |-> 2, Info |-> 3, Debug |-> 4]
Tag     == [Fatal |-> "FATAL", Error |-> "ERROR", Warn |-> "WARN",
            Info |-> "INFO", Debug |-> "DEBUG"]

\* the last call of the single goroutine of Spec, and what it wrote
Done       == call[Main]
WroteOne   == Len(stderr) = Len(Done.was.err) + 1 /\ SubSeq(stderr, 1, Len(Done.was.err)) = Done.was.err
WroteNone  == stderr = Done.was.err
NewLine    == stderr[Len(stderr)]

\* the kinds of the bracketed groups a line starts with, in order
RECURSIVE LeadingGroups(_)
LeadingGroups(line) ==
    IF line # <<>> /\ Head(line).grp \in {"time", "level", "site"}
    THEN <<Head(line).grp>> \o LeadingGroups(Tail(line))
    ELSE <<>>

\* the level tag of a line: the text of its level group
LevelTags(line) == {line[i].s : i \in {j \in 1..Len(line) : line[j].grp = "level"}}

\* C1: a call of the level function of severity S at threshold T writes a line
\* iff ordinal(S) <= ordinal(T); what it writes is exactly one line, tagged
\* with the name of S; the threshold is Info before any configuration call.
C1_EmitIffOrdinal ==
    /\ trace = <<>> => logLevel = 3
    /\ Done.op \in LevelOps =>
          /\ Done.sev = Ordinal[Done.op]
          /\ IF Ordinal[Done.op] <= Done.was.level
             THEN WroteOne /\ LevelTags(NewLine) = {Tag[Done.op]}
             ELSE WroteNone

\* an Error call at threshold Error (the boundary of the gate) wrote its line
C1_Witness ==
    /\ Done.op = "Error"
    /\ Done.was.level = 1
    /\ WroteOne

\* C3: whatever the threshold (any value SetLogLevel can store, EnableDebug,
\* DisableTime before it), a Fatal call writes its line and ends the process.
C3_FatalNeverSuppressed ==
    Done.op = "Fatal" =>
        /\ WroteOne
        /\ LevelTags(NewLine) = {"FATAL"}
        /\ exitStatus = {1}

\* Fatal called at the strictest threshold, set by SetLogLevel(LevelFatal)
C3_Witness ==
    /\ Done.op = "Fatal"
    /\ Done.was.level = 0
    /\ trace[Len(trace) - 1] = "SetLogLevel"
    /\ exitStatus = {1}

\* C4: EnableDebug, whatever the threshold before it, leaves the threshold at
\* Debug, writes exactly one Info line announcing debug mode, and leaves
\* showTime as it was.
C4_EnableDebug ==
    Done.op = "EnableDebug" =>
        /\ logLevel = 4
        /\ WroteOne
        /\ LevelTags(NewLine) = {"INFO"}
        /\ \E i \in 1..Len(NewLine) : NewLine[i] = Lit("Debug mode enabled")
        /\ showTime = Done.was.time
        /\ exitStatus = {}

\* EnableDebug called at threshold Fatal, at which an Info call is suppressed
C4_Witness ==
    /\ Done.op = "EnableDebug"
    /\ Done.was.level = 0
    /\ WroteOne

\* C5: DisableTime a second time changes nothing; once called, showTime stays
\* false whatever is called next, and every line written while it is false
\* has no timestamp group.
C5_DisableTimePermanent ==
    /\ Done.op = "DisableTime" => ~showTime
    /\ (Done.op = "DisableTime" /\ ~Done.was.time) =>
          /\ logLevel = Done.was.level
          /\ showTime = Done.was.time
          /\ WroteNone
          /\ exitStatus = {}
    /\ (\E i \in 1..Len(trace) : trace[i] = "DisableTime") => ~showTime
    /\ \A i \in 1..Len(stderr) :
          ~wlog[i].time => \A j \in 1..Len(stderr[i]) : stderr[i][j].grp # "time"

\* DisableTime twice, then a line written
C5_Witness ==
    /\ trace = <<"DisableTime", "DisableTime", "Info">>
    /\ WroteOne

\* the bracketed groups of every written line: timestamp, level, call-site
\* when showTime was read true, and level, call-site when it was read false
GroupsInOrder ==
    \A i \in 1..Len(stderr) :
        LeadingGroups(stderr[i]) =
            IF wlog[i].st = {TRUE} THEN <<"time", "level", "site">>
                                   ELSE <<"level", "site">>

\* C6: every written line is its bracketed groups in the order timestamp,
\* level, call-site (three with showTime, two without), followed by the
\* message and, last, a newline.
C6_LineShape ==
    /\ GroupsInOrder
    /\ \A i \in 1..Len(stderr) : Last(stderr[i]) = NL

\* C7: a Debug/Info/Warn/Error call that does not pass the gate writes nothing
\* and changes nothing; no level call, written or not, changes the threshold
\* or showTime.
C7_SuppressedIsNoOp ==
    /\ (Done.op \in {"Debug", "Info", "Warn", "Error"}
            /\ Ordinal[Done.op] > Done.was.level) =>
          /\ WroteNone
          /\ logLevel = Done.was.level
          /\ showTime = Done.was.time
          /\ exitStatus = {}
          /\ pc[Main] = "idle"
    /\ Done.op \in LevelOps =>
          /\ logLevel = Done.was.level
          /\ showTime = Done.was.time

\* a Debug call at the initial threshold Info, after a line was written
C7_Witness ==
    /\ Done.op = "Debug"
    /\ Done.was.level = 3
    /\ Done.was.err # <<>>
    /\ WroteNone

\* C8: SetLogLevel(l) stores exactly l, whatever l is, and changes nothing
\* else; only SetLogLevel and EnableDebug change the threshold; at a threshold
\* above Debug every level function writes.
C8_SetLogLevel ==
    /\ Done.op = "SetLogLevel" =>
          /\ Done.arg = {logLevel}
          /\ showTime = Done.was.time
          /\ WroteNone
          /\ exitStatus = {}
    /\ (trace # <<>> /\ Done.op \notin {"SetLogLevel", "EnableDebug"}) =>
          logLevel = Done.was.level
    /\ (Done.op \in LevelOps /\ Done.was.level > 4) => WroteOne

\* a Debug call that wrote at a threshold above Debug's ordinal
C8_Witness ==
    /\ Done.op = "Debug"
    /\ Done.was.level > 4
    /\ trace[Len(trace) - 1] = "SetLogLevel"
    /\ WroteOne

\* C9: the process ends only by a Fatal call that wrote its line; every other
\* call returns to its caller with the process running.
C9_OnlyFatalExits ==
    /\ exitStatus # {} =>
          /\ Done.op = "Fatal"
          /\ exitStatus = {1}
          /\ WroteOne
    /\ (trace # <<>> /\ Done.op # "Fatal") =>
          /\ exitStatus = {}
          /\ pc[Main] = "idle"

\* an Error call whose call site could not be resolved wrote and returned
C9_Witness ==
    /\ Done.op = "Error"
    /\ WroteOne
    /\ \E i \in 1..Len(NewLine) :
          NewLine[i].grp = "site" /\ NewLine[i].file = <<>> /\ NewLine[i].line = 0
    /\ exitStatus = {}
    /\ pc[Main] = "idle"

----------------------------------------------------------------------------
(* Several goroutines *)

\* the entries of stderr written by call number id
LinesOf(id) == {i \in 1..Len(wlog) : wlog[i].id = id}

\* every value ever stored to logLevel / showTime, the initial ones included
StoredLevels == {3} \cup UNION {Range(stores[q].level) : q \in Procs}
StoredTimes  == {TRUE} \cup UNION {Range(stores[q].time) : q \in Procs}

\* C2: a Fatal call that passed the gate has written exactly one FATAL line
\* when it ends the process, with exit status 1; it never returns to its
\* caller; once the process has ended nothing is written and nothing changes,
\* whatever the other goroutines were in the middle of.
C2_FatalTerminates ==
    [][ /\ exitStatus # {} =>
              UNCHANGED <<logLevel, showTime, stderr, exitStatus, pc>>
        /\ (exitStatus = {} /\ exitStatus' # {}) =>
              /\ exitStatus' = {1}
              /\ stderr' = stderr
              /\ \E p \in Procs :
                    /\ pc[p] = "exit" /\ pc'[p] = "exited"
                    /\ call[p].op = "Fatal"
                    /\ Cardinality(LinesOf(call[p].id)) = 1
                    /\ \A i \in LinesOf(call[p].id) :
                          wlog[i].by = p /\ LevelTags(stderr[i]) = {"FATAL"}
        /\ \A p \in Procs :
              (call[p].op = "Fatal" /\ pc[p] # "idle") =>
                  /\ pc'[p] # "idle"
                  /\ pc[p] = "write" => pc'[p] \in {"write", "exit"}
      ]_vars

\* a Fatal call has ended the process while the other goroutine was inside
\* logging, between its gate and its write
C2_Witness ==
    /\ exitStatus = {1}
    /\ \E p \in Procs : pc[p] = "exited" /\ call[p].op = "Fatal"
    /\ \E q \in Procs : pc[q] = "write"

\* C10: with configuration calls interleaved anywhere, (a) every line written
\* by a level function of severity S was written by a call that read a
\* threshold t with ordinal(S) <= t; (b) a call that passes its gate writes
\* exactly once, a call that does not writes nothing; (c) the threshold and
\* showTime values a call used are values that were stored (initially or by a
\* configuration call).
C10_RacyCalls ==
    /\ \A i \in 1..Len(wlog) :
          /\ wlog[i].op \in LevelOps =>
                \E t \in wlog[i].gate : Ordinal[wlog[i].op] <= t
          /\ wlog[i].gate \subseteq StoredLevels
          /\ wlog[i].st # {} /\ wlog[i].st \subseteq StoredTimes
    /\ \A p \in Procs :
          /\ call[p].gate \subseteq StoredLevels
          /\ call[p].st \subseteq StoredTimes
          /\ call[p].op \in LevelOps =>
                Cardinality(LinesOf(call[p].id)) =
                    IF /\ \E t \in call[p].gate : Ordinal[call[p].op] <= t
                       /\ pc[p] \in {"idle", "exit", "exited"}
                    THEN 1 ELSE 0
          /\ call[p].op = "EnableDebug" =>
                Cardinality(LinesOf(call[p].id)) = IF pc[p] = "idle" THEN 1 ELSE 0

\* a line was written by a level call although the threshold in force at the
\* write, stored between the call's gate and its write, suppresses its severity
C10_Witness ==
    \E i \in 1..Len(wlog) :
        /\ wlog[i].op \in LevelOps
        /\ Ordinal[wlog[i].op] > wlog[i].level
        /\ wlog[i].gate # {wlog[i].level}

====
